---------------------------- MODULE Spec2Model ----------------------------
(***************************************************************************)
(* The safe arithmetic expression evaluator of src/handlers/math.ts:       *)
(* calculate (sanitizer, finiteness check, error wrapping) and the         *)
(* recursive-descent parser evaluateExpression.                            *)
(*                                                                         *)
(* Strings are sequences of one-character strings.  Numbers are IEEE-754   *)
(* doubles restricted to the values the model represents exactly: signed   *)
(* dyadic rationals s * n / d (d a power of two) of bounded size, the two  *)
(* zeros, the two infinities and NaN.  On these every operation of the     *)
(* evaluator is exact, so the model computes what the double arithmetic    *)
(* computes.  A result outside that range is the value OOM; inputs whose   *)
(* evaluation meets OOM are left out of the input set.                     *)
(***************************************************************************)
EXTENDS Integers, Sequences, FiniteSets, TLC

\* ------------------------------------------------------------------ bounds
\* Longest input string enumerated exhaustively over Alphabet.
MaxLen == 3
\* Largest magnitude of a numerator the model represents.
Cap == 30000
\* Largest binary exponent of a denominator the model represents.
MaxDenExp == 6
\* Longest chain of unary minus signs in the generated inputs.
MaxNeg == 4
\* Most calls of calculate in one run of a sequence of calls.
MaxCalls == 3
\* The number of invocations of calculate whose steps interleave.
NumProcs == 2

\* ------------------------------------------------------------- characters
DigitChars == {"0", "1", "2", "3", "4", "5", "6", "7", "8", "9"}

\* \s of the two regular expressions and the set String.prototype.trim removes
SpaceChars == {" ", "\t", "\n", "\r"}

\* the character class of allowedPattern: [\d\s+\-*/(). ^]
AllowedChars == DigitChars \cup SpaceChars \cup {"+", "-", "*", "/", "(", ")", ".", " ", "^"}

DigitVal(c) ==
    CASE c = "0" -> 0 [] c = "1" -> 1 [] c = "2" -> 2 [] c = "3" -> 3
      [] c = "4" -> 4 [] c = "5" -> 5 [] c = "6" -> 6 [] c = "7" -> 7
      [] c = "8" -> 8 [] c = "9" -> 9

DigitChar(n) ==
    CASE n = 0 -> "0" [] n = 1 -> "1" [] n = 2 -> "2" [] n = 3 -> "3"
      [] n = 4 -> "4" [] n = 5 -> "5" [] n = 6 -> "6" [] n = 7 -> "7"
      [] n = 8 -> "8" [] n = 9 -> "9"

\* ---------------------------------------------------------------- numbers
\* A number: k is "fin", "inf", "nan" or "oom"; s is the sign (1 or -1);
\* a finite value is s * n / d with n >= 0, d a power of two, n odd or d = 1.
Num(k, s, n, d) == [k |-> k, s |-> s, n |-> n, d |-> d]

NaN == Num("nan", 1, 0, 1)
OOM == Num("oom", 1, 0, 1)
Inf(s) == Num("inf", s, 0, 1)
Zero(s) == Num("fin", s, 0, 1)
One == Num("fin", 1, 1, 1)

RECURSIVE Gcd(_, _)
Gcd(a, b) == IF b = 0 THEN a ELSE Gcd(b, a % b)

RECURSIVE IsPow2(_)
IsPow2(d) == IF d = 1 THEN TRUE ELSE IF d % 2 = 1 THEN FALSE ELSE IsPow2(d \div 2)

RECURSIVE Pow2(_)
Pow2(e) == IF e = 0 THEN 1 ELSE 2 * Pow2(e - 1)

RECURSIVE Pow10(_)
Pow10(e) == IF e = 0 THEN 1 ELSE 10 * Pow10(e - 1)

RECURSIVE Log2(_)
Log2(d) == IF d = 1 THEN 0 ELSE 1 + Log2(d \div 2)

\* The double s * n / d when the model represents it exactly (n >= 0, d >= 1).
Mk(s, n, d) ==
    IF n = 0 THEN Zero(s)
    ELSE LET g == Gcd(n, d)
             rn == n \div g
             rd == d \div g
         IN  IF IsPow2(rd) /\ rn <= Cap /\ rd <= Pow2(MaxDenExp)
             THEN Num("fin", s, rn, rd)
             ELSE OOM

IsZero(a) == a.k = "fin" /\ a.n = 0

\* a check that rejects NaN only
IsFinite_notNaN(a) == a.k # "nan"

\* typeof result === 'number' && isFinite(result)
IsFinite(a) == a.k = "fin"

\* unary minus of JavaScript
Neg(a) == IF a.k \in {"nan", "oom"} THEN a ELSE [a EXCEPT !.s = -a.s]

\* a + b of JavaScript
Add(a, b) ==
    IF a.k = "oom" \/ b.k = "oom" THEN OOM
    ELSE IF a.k = "nan" \/ b.k = "nan" THEN NaN
    ELSE IF a.k = "inf" /\ b.k = "inf" THEN (IF a.s = b.s THEN a ELSE NaN)
    ELSE IF a.k = "inf" THEN a
    ELSE IF b.k = "inf" THEN b
    ELSE IF IsZero(a) /\ IsZero(b) THEN (IF a.s = -1 /\ b.s = -1 THEN Zero(-1) ELSE Zero(1))
    ELSE LET dd == IF a.d >= b.d THEN a.d ELSE b.d
             t  == a.s * a.n * (dd \div a.d) + b.s * b.n * (dd \div b.d)
         IN  IF t = 0 THEN Zero(1)
             ELSE IF t > 0 THEN Mk(1, t, dd)
             ELSE Mk(-1, -t, dd)

\* a - b of JavaScript
Sub(a, b) == Add(a, Neg(b))

\* a * b of JavaScript
Mul(a, b) ==
    IF a.k = "oom" \/ b.k = "oom" THEN OOM
    ELSE IF a.k = "nan" \/ b.k = "nan" THEN NaN
    ELSE IF a.k = "inf" \/ b.k = "inf"
         THEN (IF IsZero(a) \/ IsZero(b) THEN NaN ELSE Inf(a.s * b.s))
    ELSE Mk(a.s * b.s, a.n * b.n, a.d * b.d)

\* a / b of JavaScript
Div(a, b) ==
    IF a.k = "oom" \/ b.k = "oom" THEN OOM
    ELSE IF a.k = "nan" \/ b.k = "nan" THEN NaN
    ELSE IF a.k = "inf" THEN (IF b.k = "inf" THEN NaN ELSE Inf(a.s * b.s))
    ELSE IF b.k = "inf" THEN Zero(a.s * b.s)
    ELSE IF IsZero(b) THEN (IF IsZero(a) THEN NaN ELSE Inf(a.s * b.s))
    ELSE Mk(a.s * b.s, a.n * b.d, a.d * b.n)


IsInt(a) == a.k = "fin" /\ a.d = 1

IsOddInt(a) == IsInt(a) /\ a.n % 2 = 1

\* Exponent from which every base of magnitude >= 2 overflows a double
\* (2^1024 is above Number.MAX_VALUE).
OverflowExp == 1024

\* an/ad * (n / d)^e as <<numerator, denominator>>, or <<0, 0>> once a
\* component leaves the represented range.
RECURSIVE PowFrac(_, _, _, _, _)
PowFrac(n, d, e, an, ad) ==
    IF e = 0 THEN <<an, ad>>
    ELSE IF an * n > Cap \/ ad * d > Cap THEN <<0, 0>>
    ELSE PowFrac(n, d, e - 1, an * n, ad * d)

\* The real-number case of Math.pow: base finite and non-zero, exponent
\* finite and non-zero.
PowReal(base, ex) ==
    IF ~IsInt(ex)
    THEN IF base.s = -1 THEN NaN
         ELSE IF base.n = base.d THEN One
         ELSE OOM
    ELSE LET rs == IF base.s = -1 /\ IsOddInt(ex) THEN -1 ELSE 1
         IN  IF base.n = base.d THEN Num("fin", rs, 1, 1)
             ELSE IF ex.s = 1 /\ base.n >= 2 * base.d /\ ex.n >= OverflowExp THEN Inf(rs)
             ELSE LET r == IF ex.s = 1 THEN PowFrac(base.n, base.d, ex.n, 1, 1)
                                       ELSE PowFrac(base.d, base.n, ex.n, 1, 1)
                  IN  IF r[2] = 0 THEN OOM ELSE Mk(rs, r[1], r[2])

\* Math.pow(base, ex)
Pow(base, ex) ==
    IF base.k = "oom" \/ ex.k = "oom" THEN OOM
    ELSE IF ex.k = "nan" THEN NaN
    ELSE IF IsZero(ex) THEN One
    ELSE IF base.k = "nan" THEN NaN
    ELSE IF base.k = "inf" /\ base.s = 1 THEN (IF ex.s = 1 THEN Inf(1) ELSE Zero(1))
    ELSE IF base.k = "inf"
         THEN (IF ex.s = 1 THEN (IF IsOddInt(ex) THEN Inf(-1) ELSE Inf(1))
                           ELSE (IF IsOddInt(ex) THEN Zero(-1) ELSE Zero(1)))
    ELSE IF IsZero(base) /\ base.s = 1 THEN (IF ex.s = 1 THEN Zero(1) ELSE Inf(1))
    ELSE IF IsZero(base)
         THEN (IF ex.s = 1 THEN (IF IsOddInt(ex) THEN Zero(-1) ELSE Zero(1))
                           ELSE (IF IsOddInt(ex) THEN Inf(-1) ELSE Inf(1)))
    ELSE IF ex.k = "inf"
         THEN (IF base.n = base.d THEN NaN
               ELSE IF (base.n > base.d) = (ex.s = 1) THEN Inf(1)
               ELSE Zero(1))
    ELSE PowReal(base, ex)

\* --------------------------------------------------------- number <-> text
\* The decimal digits of n >= 0.
RECURSIVE DigitsOf(_)
DigitsOf(n) ==
    IF n < 10 THEN <<DigitChar(n)>>
    ELSE Append(DigitsOf(n \div 10), DigitChar(n % 10))

\* The last k decimal digits of n, with leading zeros.
RECURSIVE PadDigits(_, _)
PadDigits(n, k) ==
    IF k = 0 THEN <<>>
    ELSE Append(PadDigits(n \div 10, k - 1), DigitChar(n % 10))

\* Number.prototype.toString (radix 10) on the represented values.
numToString(a) ==
    IF a.k = "nan" THEN <<"N", "a", "N">>
    ELSE IF a.k = "inf"
         THEN (IF a.s = -1 THEN <<"-">> ELSE <<>>) \o <<"I", "n", "f", "i", "n", "i", "t", "y">>
    ELSE IF a.k = "oom" THEN <<"?">>
    ELSE IF a.n = 0 THEN <<"0">>
    ELSE LET e    == Log2(a.d)
             ip   == a.n \div a.d
             fr   == ((a.n % a.d) * Pow10(e)) \div a.d
         IN  (IF a.s = -1 THEN <<"-">> ELSE <<>>)
               \o DigitsOf(ip)
               \o (IF e = 0 THEN <<>> ELSE <<".">> \o PadDigits(fr, e))

\* The number of digit characters of s from index i (1-based) on.
RECURSIVE DigitRun(_, _)
DigitRun(s, i) ==
    IF i <= Len(s) /\ s[i] \in DigitChars THEN 1 + DigitRun(s, i + 1) ELSE 0

\* The value of a sequence of digits, or -1 above Cap.
RECURSIVE DecVal(_)
DecVal(ds) ==
    IF ds = <<>> THEN 0
    ELSE LET hi == DecVal(SubSeq(ds, 1, Len(ds) - 1))
         IN  IF hi = -1 \/ hi * 10 + DigitVal(ds[Len(ds)]) > Cap
             THEN -1
             ELSE hi * 10 + DigitVal(ds[Len(ds)])

\* a conversion that takes the whole string or nothing, as Number() does
parseFloat_strict(num) ==
    LET il   == DigitRun(num, 1)
        dot  == il < Len(num) /\ num[il + 1] = "."
        fl   == IF dot THEN DigitRun(num, il + 2) ELSE 0
        ds   == SubSeq(num, 1, il) \o (IF dot THEN SubSeq(num, il + 2, il + 1 + fl) ELSE <<>>)
        v    == DecVal(ds)
    IN  IF il = 0 /\ fl = 0 THEN NaN
        ELSE IF il + (IF dot THEN 1 ELSE 0) + fl # Len(num) THEN NaN
        ELSE IF v = -1 \/ fl > MaxDenExp + 1 THEN OOM
        ELSE Mk(1, v, Pow10(fl))

\* parseFloat on a string of digits and dots: the longest prefix that is a
\* decimal literal (digits, optionally a dot and digits, at least one
\* digit), NaN when there is none.
parseFloat(num) ==
    LET il   == DigitRun(num, 1)
        dot  == il < Len(num) /\ num[il + 1] = "."
        fl   == IF dot THEN DigitRun(num, il + 2) ELSE 0
        ds   == SubSeq(num, 1, il) \o (IF dot THEN SubSeq(num, il + 2, il + 1 + fl) ELSE <<>>)
        v    == DecVal(ds)
    IN  IF il = 0 /\ fl = 0 THEN NaN
        ELSE IF v = -1 \/ fl > MaxDenExp + 1 THEN OOM
        ELSE Mk(1, v, Pow10(fl))

\* ----------------------------------------------------- evaluateExpression
\* The state a parsing function returns: the value it computed, the cursor
\* pos after it, and (a history field, not in the code) whether a division
\* by a zero divisor has been performed so far.
PRes(val, pos, divz) == [val |-> val, pos |-> pos, divz |-> divz]

\* str[pos] || ''  (pos counts from 0)
peek(str, pos) == IF pos < Len(str) THEN str[pos + 1] ELSE ""

\* The characters the loop of parseNumber consumes from pos on.
RECURSIVE NumRun(_, _)
NumRun(str, pos) ==
    IF peek(str, pos) \in DigitChars \cup {"."} THEN 1 + NumRun(str, pos + 1) ELSE 0

parseNumber(str, pos) ==
    LET len == NumRun(str, pos)
    IN  PRes(parseFloat(SubSeq(str, pos + 1, pos + len)), pos + len, FALSE)

RECURSIVE parseFactor(_, _)
RECURSIVE parsePowerLoop(_, _)
RECURSIVE parsePower(_, _)
RECURSIVE parseTermLoop(_, _)
RECURSIVE parseTerm(_, _)
RECURSIVE parseExpressionLoop(_, _)
RECURSIVE parseExpression(_, _)

\* parseFactor with a unary minus that negates a number instead of a factor
parseFactor_minusNumber(str, pos) ==
    IF peek(str, pos) = "("
    THEN LET e == parseExpression(str, pos + 1)
         IN  PRes(e.val, e.pos + 1, e.divz)
    ELSE IF peek(str, pos) = "-"
    THEN LET f == parseNumber(str, pos + 1)
         IN  PRes(Neg(f.val), f.pos, f.divz)
    ELSE parseNumber(str, pos)

\* parseFactor with a group that is a number only when ')' closes it
parseFactor_checkClose(str, pos) ==
    IF peek(str, pos) = "("
    THEN LET e == parseExpression(str, pos + 1)
         IN  PRes(IF peek(str, e.pos) = ")" THEN e.val ELSE NaN, e.pos + 1, e.divz)
    ELSE IF peek(str, pos) = "-"
    THEN LET f == parseFactor(str, pos + 1)
         IN  PRes(Neg(f.val), f.pos, f.divz)
    ELSE parseNumber(str, pos)

\* parseFactor with a unary minus that negates a whole power
parseFactor_minusPower(str, pos) ==
    IF peek(str, pos) = "("
    THEN LET e == parseExpression(str, pos + 1)
         IN  PRes(e.val, e.pos + 1, e.divz)
    ELSE IF peek(str, pos) = "-"
    THEN LET f == parsePower(str, pos + 1)
         IN  PRes(Neg(f.val), f.pos, f.divz)
    ELSE parseNumber(str, pos)

parseFactor(str, pos) ==
    IF peek(str, pos) = "("
    THEN LET e == parseExpression(str, pos + 1)
         IN  PRes(e.val, e.pos + 1, e.divz)
    ELSE IF peek(str, pos) = "-"
    THEN LET f == parseFactor(str, pos + 1)
         IN  PRes(Neg(f.val), f.pos, f.divz)
    ELSE parseNumber(str, pos)

\* the loop of parsePower taking the whole rest of the chain as the exponent
parsePowerLoop_rightAssoc(str, st) ==
    IF peek(str, st.pos) = "^"
    THEN LET r == parsePower(str, st.pos + 1)
         IN  PRes(Pow(st.val, r.val), r.pos, st.divz \/ r.divz)
    ELSE st

\* The while loop of parsePower, entered with left = st.val at st.pos.
parsePowerLoop(str, st) ==
    IF peek(str, st.pos) = "^"
    THEN LET f == parseFactor(str, st.pos + 1)
         IN  parsePowerLoop(str, PRes(Pow(st.val, f.val), f.pos, st.divz \/ f.divz))
    ELSE st

parsePower(str, pos) == parsePowerLoop(str, parseFactor(str, pos))

\* the loop of parseTerm taking a factor, not a power, as right operand
parseTermLoop_noPower(str, st) ==
    IF peek(str, st.pos) \in {"*", "/"}
    THEN LET op    == peek(str, st.pos)
             right == parseFactor(str, st.pos + 1)
         IN  parseTermLoop(str,
                 PRes(IF op = "*" THEN Mul(st.val, right.val) ELSE Div(st.val, right.val),
                      right.pos,
                      st.divz \/ right.divz \/ (op = "/" /\ IsZero(right.val))))
    ELSE st

\* The while loop of parseTerm, entered with left = st.val at st.pos.
parseTermLoop(str, st) ==
    IF peek(str, st.pos) \in {"*", "/"}
    THEN LET op    == peek(str, st.pos)
             right == parsePower(str, st.pos + 1)
         IN  parseTermLoop(str,
                 PRes(IF op = "*" THEN Mul(st.val, right.val) ELSE Div(st.val, right.val),
                      right.pos,
                      st.divz \/ right.divz \/ (op = "/" /\ IsZero(right.val))))
    ELSE st

parseTerm(str, pos) == parseTermLoop(str, parsePower(str, pos))

\* the loop of parseExpression taking a power, not a term, as right operand
parseExpressionLoop_noTerm(str, st) ==
    IF peek(str, st.pos) \in {"+", "-"}
    THEN LET op    == peek(str, st.pos)
             right == parsePower(str, st.pos + 1)
         IN  parseExpressionLoop(str,
                 PRes(IF op = "+" THEN Add(st.val, right.val) ELSE Sub(st.val, right.val),
                      right.pos,
                      st.divz \/ right.divz))
    ELSE st

\* the loop of parseExpression taking the whole rest as its right operand
parseExpressionLoop_rightAssoc(str, st) ==
    IF peek(str, st.pos) \in {"+", "-"}
    THEN LET op    == peek(str, st.pos)
             right == parseExpression(str, st.pos + 1)
         IN  PRes(IF op = "+" THEN Add(st.val, right.val) ELSE Sub(st.val, right.val),
                  right.pos,
                  st.divz \/ right.divz)
    ELSE st

\* The while loop of parseExpression, entered with left = st.val at st.pos.
parseExpressionLoop(str, st) ==
    IF peek(str, st.pos) \in {"+", "-"}
    THEN LET op    == peek(str, st.pos)
             right == parseTerm(str, st.pos + 1)
         IN  parseExpressionLoop(str,
                 PRes(IF op = "+" THEN Add(st.val, right.val) ELSE Sub(st.val, right.val),
                      right.pos,
                      st.divz \/ right.divz))
    ELSE st

parseExpression(str, pos) == parseExpressionLoop(str, parseTerm(str, pos))

IsSpace(c) == c \in SpaceChars

\* a replace that removes nothing
stripWhitespace_none(expr) == expr

\* expr.replace(/\s/g, '')
stripWhitespace(expr) == SelectSeq(expr, LAMBDA c : ~IsSpace(c))

\* evaluateExpression with a check that the whole string was consumed
evaluateExpression_checkEnd(expr) ==
    LET r == parseExpression(stripWhitespace(expr), 0)
    IN  IF r.pos = Len(stripWhitespace(expr)) THEN r ELSE PRes(NaN, r.pos, r.divz)

evaluateExpression(expr) == parseExpression(stripWhitespace(expr), 0)

\* -------------------------------------------------------------- calculate
RECURSIVE trimStart(_)
trimStart(s) == IF s # <<>> /\ IsSpace(s[1]) THEN trimStart(Tail(s)) ELSE s

RECURSIVE trimEnd(_)
trimEnd(s) ==
    IF s # <<>> /\ IsSpace(s[Len(s)]) THEN trimEnd(SubSeq(s, 1, Len(s) - 1)) ELSE s

\* String.prototype.trim
trim(s) == trimEnd(trimStart(s))

\* the pattern without its anchors: some character is of the class
allowedPattern_unanchored(expr) == \E i \in 1..Len(expr) : expr[i] \in AllowedChars

\* a pattern with * in the place of +: the empty string matches
allowedPattern_star(expr) == \A i \in 1..Len(expr) : expr[i] \in AllowedChars

\* allowedPattern.test(expr): one or more characters, all of the class
allowedPattern(expr) == expr # <<>> /\ \A i \in 1..Len(expr) : expr[i] \in AllowedChars

ErrInvalidChars == <<"Expression contains invalid characters. Only numbers, +, -, *, /, ^, (, ) are allowed.">>

ErrNotNumber == <<"Result is not a valid number">>

\* (an error is the sequence of the parts of its message)
\* the message of the error the catch block throws for a caught error e
WrapError(e) == <<"Invalid expression: ">> \o e

\* ----------------------------------------------------------------- inputs
\* The characters of the exhaustively enumerated inputs: three digits, the
\* dot, every operator and parenthesis, two kinds of whitespace, a letter.
Alphabet == {"0", "2", "5", ".", "+", "-", "*", "/", "^", "(", ")", " ", "\t", "a"}

ShortStrings == UNION {[1..n -> Alphabet] : n \in 0..MaxLen}

Operands == {<<"0">>, <<"2">>, <<"3">>}

BinOps == {"+", "-", "*", "/", "^"}

\* a op b op c
Chains == {a \o <<o1>> \o b \o <<o2>> \o c :
              a \in Operands, o1 \in BinOps, b \in Operands, o2 \in BinOps, c \in Operands}

\* (a op b) op c  and  a op (b op c)
Grouped ==
    {<<"(">> \o a \o <<o1>> \o b \o <<")">> \o <<o2>> \o c :
        a \in Operands, o1 \in BinOps, b \in Operands, o2 \in BinOps, c \in Operands}
    \cup
    {a \o <<o1>> \o <<"(">> \o b \o <<o2>> \o c \o <<")">> :
        a \in Operands, o1 \in BinOps, b \in Operands, o2 \in BinOps, c \in Operands}

\* k minus signs
RECURSIVE Minus(_)
Minus(k) == IF k = 0 THEN <<>> ELSE <<"-">> \o Minus(k - 1)

Factors == Operands \cup {<<"5">>, <<".", "5">>, <<"(", "2", "+", "3", ")">>, <<"(", "2", "/", "0", ")">>}

Tails == {<<>>, <<"+", "3">>, <<"*", "3">>, <<"^", "2">>}

\* -...-f, alone and followed by a binary operator
Negated == {Minus(k) \o f \o t : k \in 0..MaxNeg, f \in Factors, t \in Tails}

\* The expressions of the documentation (README.md, tools.ts, the planning
\* and API documents) and of the evaluator's stated test cases.
Examples ==
    { <<"2", " ", "+", " ", "2", " ", "*", " ", "3">>,
      <<"(", "2", " ", "+", " ", "2", ")", " ", "*", " ", "3">>,
      <<"2", " ", "+", " ", "2", " ", "*", " ", "3", " ", "^", " ", "2">>,
      <<"2", "^", "3">>,
      <<"2", "^", "3", "^", "2">>,
      <<"2", " ", "+", " ", "a", "l", "e", "r", "t", "(", "1", ")">>,
      <<"5", " ", "/", " ", "0">>,
      <<"(", "2", " ", "+", " ", "3">>,
      <<"2", " ", "+", " ", "3", ")">>,
      <<"-", "-", "5">>,
      <<"-", "5", " ", "+", " ", "3">>,
      <<"2", "^", "9", "9", "9", "9">>,
      <<"1", "\t", "+", "\n", "2">> }

\* The calls of named functions the tool description advertises.
FunctionCalls ==
    { <<"s", "q", "r", "t", "(", "1", "6", ")">>,
      <<"a", "b", "s", "(", "-", "5", ")">>,
      <<"p", "o", "w", "(", "2", ",", "3", ")">> }

PowOperands ==
    Operands \cup {<<".", "5">>, <<"-", "2">>, <<"(", "2", "/", "0", ")">>, <<"(", "0", "-", "2", ")">>}

\* a^b^c
PowChains == {a \o <<"^">> \o b \o <<"^">> \o c : a \in PowOperands, b \in PowOperands, c \in PowOperands}

\* Expressions with input left after the top-level expression.
Trailing ==
    { <<"(", "2", ")", "(", "3", ")">>,
      <<"(", "2", ")", "3">>,
      <<"2", "+", "3", ")", "5">>,
      <<"2", "*", "3", ")", ".", "5">>,
      <<"(", "2", "/", "0", ")", "(">> }

\* a (+|-) b (*|/) c ^ d  and  a ^ b (*|/) c (+|-) d
Tiered ==
    {a \o <<o1>> \o b \o <<o2>> \o c \o <<"^">> \o d :
        a \in Operands, o1 \in {"+", "-"}, b \in Operands, o2 \in {"*", "/"},
        c \in Operands, d \in Operands}
    \cup
    {a \o <<"^">> \o b \o <<o2>> \o c \o <<o1>> \o d :
        a \in Operands, o1 \in {"+", "-"}, b \in Operands, o2 \in {"*", "/"},
        c \in Operands, d \in Operands}

\* -a op b  and  a op -b
MinusBinds ==
    {<<"-">> \o a \o <<o>> \o b : a \in Operands, o \in BinOps, b \in Operands}
    \cup
    {a \o <<o, "-">> \o b : a \in Operands, o \in BinOps, b \in Operands}

\* the operands of the chains of one tier
TierOperands == Operands \cup {<<"1", "0">>, <<"8">>, <<"4">>}

\* the pairs of operators of one tier
TierPairs == ({"+", "-"} \X {"+", "-"}) \cup ({"*", "/"} \X {"*", "/"})

\* a o1 b o2 c with o1 and o2 of one tier
SameTier ==
    {a \o <<t[1]>> \o b \o <<t[2]>> \o c :
        a \in TierOperands, b \in TierOperands, c \in TierOperands, t \in TierPairs}

TierExamples ==
    { <<"1", "0", " ", "-", " ", "3", " ", "-", " ", "2">>,
      <<"8", " ", "/", " ", "4", " ", "/", " ", "2">> }

\* Expressions with whitespace inside their numbers and around them.
Spaced ==
    { <<"1", " ", "2", " ", "+", " ", "3">>,
      <<"1", "\t", "2", "+", "\n", "3">>,
      <<" ", "2", ".", " ", "5", "*", "2", " ">>,
      <<"(", " ", "2", " ", ")", " ", "/", " ", "0">> }

\* the runs of at most MaxRun digits and dots
MaxRun == 5

RunChars == {"2", "5", "."}

Runs == UNION {[1..n -> RunChars] : n \in 1..MaxRun}

\* a run alone and a run followed by "+2"
NumberRuns == Runs \cup {r \o <<"+", "2">> : r \in Runs}

Candidates ==
    ShortStrings \cup Chains \cup Grouped \cup Negated \cup PowChains \cup Examples \cup FunctionCalls
        \cup Trailing \cup Tiered \cup MinusBinds \cup SameTier \cup TierExamples \cup Spaced \cup NumberRuns

\* The evaluation of s stays within the numbers the model represents.
InModel(s) ==
    LET e == trim(s)
    IN  ~allowedPattern(e) \/ evaluateExpression(e).val.k # "oom"

Inputs == {s \in Candidates : InModel(s)}

\* ------------------------------------------------------------------ state
VARIABLES
    input,      \* args.expression of the call
    pc,         \* the position in calculate: "start", "eval", "check", "done"
    expr,       \* the trimmed expression
    result,     \* what evaluateExpression returned
    cursor,     \* pos when the top-level parseExpression returned
    divz,       \* history: a division by a zero divisor was performed
    evalCalls,  \* history: the number of invocations of evaluateExpression
    ret,        \* the string calculate returned (<<>>: none)
    thrown,     \* the errors that left calculate, in order
    log,        \* history: the input and outcome of the earlier calls, in order
    inv,        \* the interleaved invocations: for each its input, position,
                \* stripped string, call stack, last returned value, outcome
    pos,        \* the cursor of each invocation of evaluateExpression
    stepper,    \* history: the invocation that took the last step (0: none)
    request,    \* the MCP request handed to handleMCPRequest
    response,   \* what handleMCPRequest gave back for it
    cli         \* what the calculate of scripts/math.ts did on the input

\* the variables of one call of calculate
callVars == <<input, pc, expr, result, cursor, divz, evalCalls, ret, thrown>>

\* the variables the steps of one call leave alone
others == <<log, inv, pos, stepper, request, response, cli>>

vars == <<callVars, others>>

\* the variables of the dispatcher
mcpVars == <<request, response>>

\* no request has been received, no response has been produced
NoRequest == [kind |-> "none"]

NoResponse == [kind |-> "none"]

\* the calculate of scripts/math.ts has not been called
NoCli == [called |-> FALSE]

NoResult == Num("none", 1, 0, 1)

Init ==
    /\ input \in Inputs
    /\ pc = "start"
    /\ expr = <<>>
    /\ result = NoResult
    /\ cursor = 0
    /\ divz = FALSE
    /\ evalCalls = 0
    /\ ret = <<>>
    /\ thrown = <<>>
    /\ log = <<>>
    /\ inv = <<>>
    /\ pos = <<>>
    /\ stepper = 0
    /\ request = NoRequest
    /\ response = NoResponse
    /\ cli = NoCli

\* trim and the allow-list test; the throw of the invalid-characters error
Sanitize ==
    /\ pc = "start"
    /\ expr' = trim(input)
    /\ IF allowedPattern(trim(input))
       THEN pc' = "eval" /\ thrown' = thrown
       ELSE pc' = "done" /\ thrown' = Append(thrown, ErrInvalidChars)
    /\ UNCHANGED <<input, result, cursor, divz, evalCalls, ret>>
    /\ UNCHANGED others

\* const result = evaluateExpression(expr)
Evaluate ==
    /\ pc = "eval"
    /\ LET r == evaluateExpression(expr)
       IN  /\ result' = r.val
           /\ cursor' = r.pos
           /\ divz' = r.divz
    /\ evalCalls' = evalCalls + 1
    /\ pc' = "check"
    /\ UNCHANGED <<input, expr, ret, thrown>>
    /\ UNCHANGED others

\* a check that reports a division by zero under a message of its own
Check_namesDivision ==
    /\ pc = "check"
    /\ IF ~IsFinite(result)
       THEN /\ ret' = ret
            /\ thrown' = Append(thrown, IF divz THEN WrapError(<<"Division by zero">>)
                                                ELSE WrapError(ErrNotNumber))
       ELSE ret' = numToString(result) /\ thrown' = thrown
    /\ pc' = "done"
    /\ UNCHANGED <<input, expr, result, cursor, divz, evalCalls>>
    /\ UNCHANGED others

\* The finiteness check: the throw inside try, caught and thrown again by
\* the catch block with the prefix, or the return of result.toString().
Check ==
    /\ pc = "check"
    /\ IF ~IsFinite(result)
       THEN ret' = ret /\ thrown' = Append(thrown, WrapError(ErrNotNumber))
       ELSE ret' = numToString(result) /\ thrown' = thrown
    /\ pc' = "done"
    /\ UNCHANGED <<input, expr, result, cursor, divz, evalCalls>>
    /\ UNCHANGED others

Next == Sanitize \/ Evaluate \/ Check

Spec == Init /\ [][Next]_vars

Done == pc = "done"

Returned == Done /\ ret # <<>>

Failed == Done /\ thrown # <<>>

TypeOK ==
    /\ pc \in {"start", "eval", "check", "done"}
    /\ result.k \in {"none", "fin", "inf", "nan"}
    /\ Len(thrown) <= 1

\* ----------------------------------------------------------------- claims
\* The whitespace-free string the parser works on.
Str == stripWhitespace(trim(input))

\* evaluateExpression has returned.
Parsed == pc \in {"check", "done"} /\ evalCalls = 1

\* The parenthesis depth of s before index i.
RECURSIVE DepthAt(_, _)
DepthAt(s, i) ==
    IF i <= 1 THEN 0
    ELSE DepthAt(s, i - 1)
           + (IF s[i - 1] = "(" THEN 1 ELSE IF s[i - 1] = ")" THEN -1 ELSE 0)

SetMax(S) == CHOOSE x \in S : \A y \in S : y <= x

Bad == Num("bad", 1, 0, 1)

\* The value of s under the standard reading of arithmetic notation, found
\* by splitting s at its loosest operator: the last + or - outside
\* parentheses that follows an operand, else the last * or / outside
\* parentheses, else a sign, a parenthesised expression or a run of digits.
\* Bad when s is no expression.
RECURSIVE StdValue(_)
StdValue(s) ==
    LET n      == Len(s)
        addIdx == {i \in 2..n : /\ s[i] \in {"+", "-"}
                                /\ DepthAt(s, i) = 0
                                /\ s[i - 1] \in DigitChars \cup {")"}}
        mulIdx == {i \in 2..n : s[i] \in {"*", "/"} /\ DepthAt(s, i) = 0}
        Split(i) ==
            LET l == StdValue(SubSeq(s, 1, i - 1))
                r == StdValue(SubSeq(s, i + 1, n))
            IN  IF l = Bad \/ r = Bad THEN Bad
                ELSE CASE s[i] = "+" -> Add(l, r)
                       [] s[i] = "-" -> Sub(l, r)
                       [] s[i] = "*" -> Mul(l, r)
                       [] s[i] = "/" -> Div(l, r)
    IN  IF n = 0 THEN Bad
        ELSE IF addIdx # {} THEN Split(SetMax(addIdx))
        ELSE IF mulIdx # {} THEN Split(SetMax(mulIdx))
        ELSE IF s[1] = "-"
             THEN LET v == StdValue(Tail(s)) IN IF v = Bad THEN Bad ELSE Neg(v)
        ELSE IF s[1] = "(" /\ s[n] = ")" THEN StdValue(SubSeq(s, 2, n - 1))
        ELSE IF \A i \in 1..n : s[i] \in DigitChars
             THEN (IF DecVal(s) = -1 THEN OOM ELSE Mk(1, DecVal(s), 1))
        ELSE Bad

ArithChars == DigitChars \cup {"+", "-", "*", "/", "(", ")"}

\* C1: for every expression built only from digits, + - * / and
\* parentheses, the value evaluateExpression returns is the value of the
\* expression under standard precedence (* and / before + and -, a
\* parenthesised sub-expression as a unit), and the string calculate returns
\* is the string form of that value.
C1_StandardPrecedence ==
    (Parsed /\ \A i \in 1..Len(Str) : Str[i] \in ArithChars) =>
        LET v == StdValue(Str)
        IN  v # Bad =>
                /\ result = v
                /\ Done => IF IsFinite(v) THEN ret = numToString(v) ELSE ret = <<>>

\* "2 + 2 * 3" has returned "8"
C1_Witness ==
    /\ Done
    /\ input = <<"2", " ", "+", " ", "2", " ", "*", " ", "3">>
    /\ ret = <<"8">>

\* The characters the claim about the allow-list admits: digits, whitespace
\* and . + - * / ^ ( )
ListedChars == DigitChars \cup SpaceChars \cup {".", "+", "-", "*", "/", "^", "(", ")"}

HasUnlisted(s) == \E i \in 1..Len(s) : s[i] \notin ListedChars

C3_DivisionByZeroFails ==
    (Done /\ divz) => (ret = <<>> /\ thrown = <<WrapError(ErrNotNumber)>>)

\* Some prefix of s closes a parenthesis that is not open, or s ends with a
\* parenthesis open.
Unbalanced(s) ==
    \/ \E i \in 1..Len(s) + 1 : DepthAt(s, i) < 0
    \/ DepthAt(s, Len(s) + 1) # 0

\* C4 (as claimed): a call on an expression with unbalanced parentheses
\* ends in a failure, never in a returned value.
C4_UnbalancedParenthesesFail ==
    (Done /\ Unbalanced(Str)) => (ret = <<>> /\ thrown # <<>>)

\* The value of the operand x of a chain, parsed on its own.
ValueOf(x) == evaluateExpression(x).val

\* C5: ^ is left-associative: for all operands a, b, c the expression a^b^c
\* evaluates to (a^b)^c, and that is the value calculate returns.
C5_PowerLeftAssociative ==
    (Parsed /\ Str \in PowChains) =>
      \A a \in PowOperands, b \in PowOperands, c \in PowOperands :
        (Str = a \o <<"^">> \o b \o <<"^">> \o c) =>
            LET v == Pow(Pow(ValueOf(a), ValueOf(b)), ValueOf(c))
            IN  /\ result = v
                /\ Done => IF IsFinite(v) THEN ret = numToString(v) ELSE ret = <<>>

\* "2^3^2" has returned "64"
C5_Witness ==
    /\ Done
    /\ input = <<"2", "^", "3", "^", "2">>
    /\ ret = <<"6", "4">>

\* v negated k times
RECURSIVE NegTimes(_, _)
NegTimes(k, v) == IF k = 0 THEN v ELSE Neg(NegTimes(k - 1, v))

\* what follows the negated factor, applied to its value v
ApplyTail(t, v) ==
    CASE t = <<>> -> v
      [] t = <<"+", "3">> -> Add(v, ValueOf(<<"3">>))
      [] t = <<"*", "3">> -> Mul(v, ValueOf(<<"3">>))
      [] t = <<"^", "2">> -> Pow(v, ValueOf(<<"2">>))

\* C6: k leading minus signs in front of a factor of value x yield x when k
\* is even and -x when k is odd, whatever binary operator follows the
\* factor.
C6_UnaryMinusChains ==
    (Parsed /\ Str \in Negated) =>
      \A k \in 0..MaxNeg, f \in Factors, t \in Tails :
        (Str = Minus(k) \o f \o t) =>
            LET x == ValueOf(f)
                v == ApplyTail(t, IF k % 2 = 0 THEN x ELSE Neg(x))
            IN  /\ result = v
                /\ Done => IF IsFinite(v) THEN ret = numToString(v) ELSE ret = <<>>

\* "--5" has returned "5"
C6_Witness ==
    /\ Done
    /\ input = <<"-", "-", "5">>
    /\ ret = <<"5">>

\* C7 (as claimed): an expression that calls one of the named functions of
\* the tool description is evaluated, not rejected by the sanitizer.
C7_NamedFunctionsEvaluated ==
    (Done /\ input \in FunctionCalls) => (evalCalls = 1 /\ thrown # <<ErrInvalidChars>>)

\* The set the sanitizer's contract names: 0-9 . + - * / ^ ( ) and the space
ContractChars == DigitChars \cup {".", "+", "-", "*", "/", "^", "(", ")", " "}

\* C8 (as claimed): every input with a character outside the contract's set,
\* a tab, a newline or a carriage return among them, fails with the
\* invalid-characters error.
C8_OnlySpaceIsAllowedWhitespace ==
    (Done /\ \E i \in 1..Len(input) : input[i] \notin ContractChars) =>
        (thrown = <<ErrInvalidChars>> /\ ret = <<>>)

\* s is the decimal string form of one finite number: an optional sign, digits,
\* and optionally a dot and digits
IsDecimalString(s) ==
    LET u  == IF s # <<>> /\ s[1] = "-" THEN Tail(s) ELSE s
        il == DigitRun(u, 1)
    IN  /\ il >= 1
        /\ \/ il = Len(u)
           \/ /\ u[il + 1] = "."
              /\ DigitRun(u, il + 2) >= 1
              /\ il + 1 + DigitRun(u, il + 2) = Len(u)

\* C9: every call ends in exactly one of two outcomes, the string form of
\* one finite number returned or exactly one error raised; at no time is
\* there both a returned value and an error, and Infinity and NaN are never
\* returned.
C9_OneOutcome ==
    /\ ~(ret # <<>> /\ thrown # <<>>)
    /\ Len(thrown) <= 1
    /\ Done => (ret # <<>>) # (Len(thrown) = 1)
    /\ ret # <<>> => (Done /\ IsDecimalString(ret) /\ IsFinite(result))

\* "5 / 0" has failed with the wrapped non-finite-result error
C9_Witness ==
    /\ Done
    /\ input = <<"5", " ", "/", " ", "0">>
    /\ result = Inf(1)
    /\ thrown = <<WrapError(ErrNotNumber)>>
    /\ ret = <<>>

\* C10 (as claimed): when the top-level parse has finished, the cursor
\* equals the length of the whitespace-stripped input.
C10_ConsumesWholeInput ==
    Parsed => cursor = Len(Str)

\* The outcome of one call of calculate on the string s, as a function of s:
\* the string returned (<<>>: none) and the errors thrown.
calculate(s) ==
    LET e == trim(s)
    IN  IF ~allowedPattern(e)
        THEN [ret |-> <<>>, thrown |-> <<ErrInvalidChars>>]
        ELSE LET r == evaluateExpression(e)
             IN  IF ~IsFinite(r.val)
                 THEN [ret |-> <<>>, thrown |-> <<WrapError(ErrNotNumber)>>]
                 ELSE [ret |-> numToString(r.val), thrown |-> <<>>]

\* C11: trailing input is silently ignored: when the top-level parse stops
\* with the cursor p before the end of the whitespace-free input, the next
\* character is ')', '(', a digit or '.', the parse has the value of the
\* consumed prefix, and the call returns exactly what calculate returns for
\* that prefix alone; a call that returns a value raises no error.
C11_TrailingInputIgnored ==
    (Parsed /\ cursor < Len(Str)) =>
        LET pre == SubSeq(Str, 1, cursor)
        IN  /\ Str[cursor + 1] \in {")", "(", "."} \cup DigitChars
            /\ result = evaluateExpression(pre).val
            /\ Done => ret = calculate(pre).ret
            /\ (Done /\ ret # <<>>) => (thrown = <<>> /\ calculate(pre).thrown = <<>>)

\* "(2)(3)" has returned "2", the parse having stopped at 3 of 6
C11_Witness ==
    /\ Done
    /\ input = <<"(", "2", ")", "(", "3", ")">>
    /\ cursor = 3
    /\ ret = <<"2">>

\* ------------------------------------------------------ a sequence of calls
\* The expressions of the calls of a sequence: a success, one failure of
\* each kind, and inputs that leave the cursor before and past the end.
CallInputs ==
    { <<"2", " ", "+", " ", "2", " ", "*", " ", "3">>,
      <<"5", " ", "/", " ", "0">>,
      <<"2", " ", "+", " ", "a", "l", "e", "r", "t", "(", "1", ")">>,
      <<".">>,
      <<"2", " ", "+">>,
      <<"(", "2", " ", "+", " ", "3">>,
      <<"2", ")", "3">> }

\* an activation that keeps the errors of the activation before it
newActivation_staleErrors(old) ==
    [expr |-> <<>>, result |-> NoResult, ret |-> <<>>, thrown |-> old.thrown]

\* The locals of a new activation of calculate, old being those of the
\* activation before it: nothing of a call outlives it.
newActivation(old) ==
    [expr |-> <<>>, result |-> NoResult, ret |-> <<>>, thrown |-> <<>>]

InitCalls ==
    /\ input \in CallInputs
    /\ pc = "start"
    /\ expr = <<>>
    /\ result = NoResult
    /\ cursor = 0
    /\ divz = FALSE
    /\ evalCalls = 0
    /\ ret = <<>>
    /\ thrown = <<>>
    /\ log = <<>>
    /\ inv = <<>>
    /\ pos = <<>>
    /\ stepper = 0
    /\ request = NoRequest
    /\ response = NoResponse
    /\ cli = NoCli

\* The caller calls calculate again, after the call before has ended.
NextCall ==
    /\ pc = "done"
    /\ Len(log) + 1 < MaxCalls
    /\ log' = Append(log, [input |-> input, ret |-> ret, thrown |-> thrown])
    /\ input' \in CallInputs
    /\ pc' = "start"
    /\ LET a == newActivation([expr |-> expr, result |-> result, ret |-> ret, thrown |-> thrown])
       IN  /\ expr' = a.expr
           /\ result' = a.result
           /\ ret' = a.ret
           /\ thrown' = a.thrown
    /\ cursor' = 0
    /\ divz' = FALSE
    /\ evalCalls' = 0
    /\ UNCHANGED <<inv, pos, stepper, mcpVars, cli>>

NextCalls == Sanitize \/ Evaluate \/ Check \/ NextCall

SpecCalls == InitCalls /\ [][NextCalls]_vars

\* the outcome recorded in the entry e of the log
OutcomeOf(e) == [ret |-> e.ret, thrown |-> e.thrown]

\* C12: calculate keeps no state between calls: in a sequence of calls the
\* outcome of each call, ended or logged, is the outcome calculate has on
\* that call's expression alone, so equal inputs have equal outcomes
\* whatever calls, failing or not, came before.
C12_OutcomeDependsOnInputOnly ==
    /\ \A i \in 1..Len(log) : OutcomeOf(log[i]) = calculate(log[i].input)
    /\ \A i \in 1..Len(log), j \in 1..Len(log) :
           log[i].input = log[j].input => OutcomeOf(log[i]) = OutcomeOf(log[j])
    /\ Done => [ret |-> ret, thrown |-> thrown] = calculate(input)

\* "5 / 0" has failed, "2 + 2 * 3" has then returned "8", and "5 / 0" has
\* failed again with the same error
C12_Witness ==
    /\ Len(log) = 2
    /\ log[1].input = <<"5", " ", "/", " ", "0">>
    /\ log[1].thrown = <<WrapError(ErrNotNumber)>>
    /\ log[2].input = <<"2", " ", "+", " ", "2", " ", "*", " ", "3">>
    /\ log[2].ret = <<"8">>
    /\ log[2].thrown = <<>>
    /\ Done
    /\ input = log[1].input
    /\ thrown = log[1].thrown

\* ------------------------------------------- the parser, one step at a time
\* The invocations of calculate.
Procs == 1..NumProcs

\* The expressions of the interleaved invocations.
StepInputs ==
    { <<"(", "-", "2">>,
      <<"5", "/", "0">>,
      <<"a">> }

\* one cursor for all invocations
cursorOf_shared(i) == 1

\* The cursor of invocation i: the variable pos its own call of
\* evaluateExpression declares.
cursorOf(i) == i

\* A frame of the call stack: the parsing function fn, the place at in it,
\* and its locals left, op and num.
Frame(fn, at, left, op, num) == [fn |-> fn, at |-> at, left |-> left, op |-> op, num |-> num]

\* The frames a call of the parsing function fn puts on the stack, down to
\* the first function that looks at the cursor: parseExpression calls
\* parseTerm, which calls parsePower, which calls parseFactor.
callFrames(fn) ==
    LET e == Frame("expr", "left", NoResult, "", <<>>)
        t == Frame("term", "left", NoResult, "", <<>>)
        w == Frame("power", "left", NoResult, "", <<>>)
        f == Frame("factor", "start", NoResult, "", <<>>)
    IN  CASE fn = "expr" -> <<e, t, w, f>>
          [] fn = "term" -> <<t, w, f>>
          [] fn = "power" -> <<w, f>>
          [] fn = "factor" -> <<f>>

\* What a step leaves: the stack, the value last returned, the cursor and
\* the history of divisions by zero.
After(stack, rv, p, dz) == [stack |-> stack, rv |-> rv, pos |-> p, divz |-> dz]

\* a parseNumber that consumes its first character before looking at it
stepNumber_consumeFirst(f, rest, str, p, rv, dz) ==
    IF f.num = <<>> \/ peek(str, p) \in DigitChars \cup {"."}
    THEN After(Append(rest, [f EXCEPT !.num = Append(f.num, IF peek(str, p) = "" THEN " "
                                                          ELSE peek(str, p))]),
               rv, p + 1, dz)
    ELSE After(rest, parseFloat(f.num), p, dz)

\* a parseNumber that puts the cursor back when it has found no number
stepNumber_rewind(f, rest, str, p, rv, dz) ==
    IF peek(str, p) \in DigitChars \cup {"."}
    THEN After(Append(rest, [f EXCEPT !.num = Append(f.num, peek(str, p))]), rv, p + 1, dz)
    ELSE After(rest, parseFloat(f.num),
               IF parseFloat(f.num).k = "nan" THEN p - Len(f.num) ELSE p, dz)

\* One iteration of the loop of parseNumber, or its return.
stepNumber(f, rest, str, p, rv, dz) ==
    IF peek(str, p) \in DigitChars \cup {"."}
    THEN After(Append(rest, [f EXCEPT !.num = Append(f.num, peek(str, p))]), rv, p + 1, dz)
    ELSE After(rest, parseFloat(f.num), p, dz)

\* parseFactor: its entry, the consume at the closing position and return,
\* the return of the negated factor.
stepFactor(f, rest, str, p, rv, dz) ==
    IF f.at = "start"
    THEN IF peek(str, p) = "("
         THEN After(Append(rest, [f EXCEPT !.at = "close"]) \o callFrames("expr"), rv, p + 1, dz)
         ELSE IF peek(str, p) = "-"
         THEN After(Append(rest, [f EXCEPT !.at = "neg"]) \o callFrames("factor"), rv, p + 1, dz)
         ELSE After(Append(rest, Frame("number", "loop", NoResult, "", <<>>)), rv, p, dz)
    ELSE IF f.at = "close"
    THEN After(rest, rv, p + 1, dz)
    ELSE After(rest, Neg(rv), p, dz)

\* a loop that calls for its right operand without consuming the operator
stepLoop_noConsume(f, ops, callee, left, rest, str, p, dz) ==
    IF peek(str, p) \in ops
    THEN After(Append(rest, [f EXCEPT !.at = "right", !.left = left, !.op = peek(str, p)])
                   \o callFrames(callee),
               left, p, dz)
    ELSE After(rest, left, p, dz)

\* The test of the while loop of the function of frame f with left operand
\* left: the consume of an operator of ops and the call of the operand's
\* function, or the return of left.
stepLoop(f, ops, callee, left, rest, str, p, dz) ==
    IF peek(str, p) \in ops
    THEN After(Append(rest, [f EXCEPT !.at = "right", !.left = left, !.op = peek(str, p)])
                   \o callFrames(callee),
               left, p + 1, dz)
    ELSE After(rest, left, p, dz)

\* parsePower after parseFactor has returned rv.
stepPower(f, rest, str, p, rv, dz) ==
    stepLoop(f, {"^"}, "factor",
             IF f.at = "left" THEN rv ELSE Pow(f.left, rv),
             rest, str, p, dz)

\* parseTerm after parsePower has returned rv.
stepTerm(f, rest, str, p, rv, dz) ==
    stepLoop(f, {"*", "/"}, "power",
             IF f.at = "left" THEN rv
             ELSE IF f.op = "*" THEN Mul(f.left, rv) ELSE Div(f.left, rv),
             rest, str, p,
             dz \/ (f.at = "right" /\ f.op = "/" /\ IsZero(rv)))

\* parseExpression after parseTerm has returned rv.
stepExpression(f, rest, str, p, rv, dz) ==
    stepLoop(f, {"+", "-"}, "term",
             IF f.at = "left" THEN rv
             ELSE IF f.op = "+" THEN Add(f.left, rv) ELSE Sub(f.left, rv),
             rest, str, p, dz)

\* The step of the function on top of the stack.
stepTop(stack, str, p, rv, dz) ==
    LET f    == stack[Len(stack)]
        rest == SubSeq(stack, 1, Len(stack) - 1)
    IN  CASE f.fn = "number" -> stepNumber(f, rest, str, p, rv, dz)
          [] f.fn = "factor" -> stepFactor(f, rest, str, p, rv, dz)
          [] f.fn = "power"  -> stepPower(f, rest, str, p, rv, dz)
          [] f.fn = "term"   -> stepTerm(f, rest, str, p, rv, dz)
          [] f.fn = "expr"   -> stepExpression(f, rest, str, p, rv, dz)

\* An invocation before its first step.
NewInvocation(s) ==
    [in |-> s, status |-> "start", str |-> <<>>, stack |-> <<>>, rv |-> NoResult,
     divz |-> FALSE, ret |-> <<>>, thrown |-> <<>>, iters |-> 0, calls |-> 0]

InitSteps ==
    /\ inv \in [Procs -> {NewInvocation(s) : s \in StepInputs}]
    /\ pos = [i \in Procs |-> 0]
    /\ stepper = 0
    /\ request = NoRequest
    /\ response = NoResponse
    /\ cli = NoCli
    /\ input = <<>>
    /\ pc = "done"
    /\ expr = <<>>
    /\ result = NoResult
    /\ cursor = 0
    /\ divz = FALSE
    /\ evalCalls = 0
    /\ ret = <<>>
    /\ thrown = <<>>
    /\ log = <<>>

\* Invocation i trims and tests its input, throws the invalid-characters
\* error or enters evaluateExpression: pos = 0, the whitespace removed, the
\* call of parseExpression.
Start(i) ==
    /\ inv[i].status = "start"
    /\ IF allowedPattern(trim(inv[i].in))
       THEN /\ inv' = [inv EXCEPT ![i].status = "parsing",
                                  ![i].str = stripWhitespace(trim(inv[i].in)),
                                  ![i].stack = callFrames("expr")]
            /\ pos' = [pos EXCEPT ![cursorOf(i)] = 0]
       ELSE /\ inv' = [inv EXCEPT ![i].status = "done",
                                  ![i].thrown = Append(inv[i].thrown, ErrInvalidChars)]
            /\ pos' = pos
    /\ stepper' = i
    /\ UNCHANGED <<callVars, log, mcpVars, cli>>

\* The step from the stack before to the stack after is an iteration of a
\* loop: the frame of parseNumber stays for another character, or the frame
\* of parsePower, parseTerm or parseExpression calls for its right operand.
IsIteration(before, after) ==
    /\ before[Len(before)].fn # "factor"
    /\ Len(after) >= Len(before)

\* The step is a recursive call made from parseFactor: its frame stays,
\* waiting for the group or for the factor to negate.
IsRecursiveCall(before, after) ==
    /\ before[Len(before)].fn = "factor"
    /\ Len(after) > Len(before)
    /\ after[Len(before)].fn = "factor"

\* Invocation i takes the step of the parsing function fn on top of its stack.
\* (iters and calls are history: the loop iterations and the recursive
\* calls of parseFactor made so far)
Step(i, fn) ==
    /\ inv[i].status = "parsing"
    /\ inv[i].stack # <<>>
    /\ inv[i].stack[Len(inv[i].stack)].fn = fn
    /\ LET a == stepTop(inv[i].stack, inv[i].str, pos[cursorOf(i)], inv[i].rv, inv[i].divz)
       IN  /\ inv' = [inv EXCEPT ![i].stack = a.stack, ![i].rv = a.rv, ![i].divz = a.divz,
                                  ![i].iters = @ + IF IsIteration(inv[i].stack, a.stack)
                                                   THEN 1 ELSE 0,
                                  ![i].calls = @ + IF IsRecursiveCall(inv[i].stack, a.stack)
                                                   THEN 1 ELSE 0]
           /\ pos' = [pos EXCEPT ![cursorOf(i)] = a.pos]
    /\ stepper' = i
    /\ UNCHANGED <<callVars, log, mcpVars, cli>>

StepNumber(i) == Step(i, "number")

StepFactor(i) == Step(i, "factor")

StepPower(i) == Step(i, "power")

StepTerm(i) == Step(i, "term")

StepExpression(i) == Step(i, "expr")

\* an end of the call that fails for every division by zero of the parse
Finish_divisionFails(i) ==
    /\ inv[i].status = "parsing"
    /\ inv[i].stack = <<>>
    /\ IF inv[i].divz \/ ~IsFinite(inv[i].rv)
       THEN inv' = [inv EXCEPT ![i].status = "done",
                               ![i].thrown = Append(inv[i].thrown, WrapError(ErrNotNumber))]
       ELSE inv' = [inv EXCEPT ![i].status = "done", ![i].ret = numToString(inv[i].rv)]
    /\ stepper' = i
    /\ UNCHANGED <<pos, callVars, log, mcpVars, cli>>

\* The top-level parseExpression of invocation i has returned: the
\* finiteness check, the wrapped throw or the return of the string.
Finish(i) ==
    /\ inv[i].status = "parsing"
    /\ inv[i].stack = <<>>
    /\ IF ~IsFinite(inv[i].rv)
       THEN inv' = [inv EXCEPT ![i].status = "done",
                               ![i].thrown = Append(inv[i].thrown, WrapError(ErrNotNumber))]
       ELSE inv' = [inv EXCEPT ![i].status = "done", ![i].ret = numToString(inv[i].rv)]
    /\ stepper' = i
    /\ UNCHANGED <<pos, callVars, log, mcpVars, cli>>

NextSteps ==
    \E i \in Procs :
        \/ Start(i)
        \/ StepNumber(i)
        \/ StepFactor(i)
        \/ StepPower(i)
        \/ StepTerm(i)
        \/ StepExpression(i)
        \/ Finish(i)

SpecSteps == InitSteps /\ [][NextSteps]_vars

\* Invocation i has ended.
Ended(i) == inv[i].status = "done"

\* Invocation i has ended after parsing.
EndedParsed(i) == Ended(i) /\ inv[i].thrown # <<ErrInvalidChars>>

\* Every ended invocation has the outcome of calculate on its input alone,
\* its parse the value and the final cursor of evaluateExpression alone.
SameAsAlone ==
    \A i \in Procs :
        /\ Ended(i) => [ret |-> inv[i].ret, thrown |-> inv[i].thrown] = calculate(inv[i].in)
        /\ EndedParsed(i) =>
               LET r == evaluateExpression(trim(inv[i].in))
               IN  inv[i].rv = r.val /\ pos[i] = r.pos /\ inv[i].divz = r.divz

\* A step changes no cursor but that of the invocation that takes it.
OwnCursorOnly == \A j \in Procs : pos'[j] # pos[j] => stepper' = j

\* C13: concurrent invocations do not interfere: under every interleaving
\* of the steps of the invocations, a step writes only the cursor of the
\* invocation taking it, and every invocation ends with the outcome it has
\* when run alone.
C13_NoInterference == [](SameAsAlone) /\ [][OwnCursorOnly]_vars

\* two invocations have ended, "(-2" with "-2" returned and its cursor at
\* 4, "5/0" failed with its cursor at 3, the first having taken the last step
C13_Witness ==
    /\ inv[1].in = <<"(", "-", "2">>
    /\ inv[1].ret = <<"-", "2">>
    /\ inv[2].in = <<"5", "/", "0">>
    /\ inv[2].thrown = <<WrapError(ErrNotNumber)>>
    /\ pos[1] = 4
    /\ pos[2] = 3
    /\ stepper = 1

\* --------------------------------------- one invocation, one step at a time
\* The expressions of the invocation that runs alone: every input of the
\* model but the longest of the exhaustively enumerated strings.
SoloInputs == {s \in Inputs : s \notin ShortStrings \/ Len(s) < MaxLen}

\* An invocation that has ended before the run.
NoInvocation == [NewInvocation(<<>>) EXCEPT !.status = "done"]

InitSolo ==
    /\ \E s \in SoloInputs :
           inv = [i \in Procs |-> IF i = 1 THEN NewInvocation(s) ELSE NoInvocation]
    /\ pos = [i \in Procs |-> 0]
    /\ stepper = 0
    /\ request = NoRequest
    /\ response = NoResponse
    /\ cli = NoCli
    /\ input = <<>>
    /\ pc = "done"
    /\ expr = <<>>
    /\ result = NoResult
    /\ cursor = 0
    /\ divz = FALSE
    /\ evalCalls = 0
    /\ ret = <<>>
    /\ thrown = <<>>
    /\ log = <<>>

SpecSolo == InitSolo /\ [][NextSteps]_vars

\* x op y for the binary operator op
BinApply(op, x, y) ==
    CASE op = "+" -> Add(x, y)
      [] op = "-" -> Sub(x, y)
      [] op = "*" -> Mul(x, y)
      [] op = "/" -> Div(x, y)
      [] op = "^" -> Pow(x, y)

\* the value v is the parse's value, and what calculate does with it
IsOutcome(v) ==
    /\ result = v
    /\ Done => IF IsFinite(v) THEN ret = numToString(v) /\ thrown = <<>>
                              ELSE ret = <<>> /\ thrown = <<WrapError(ErrNotNumber)>>

\* C14: ^ binds tighter than * and /, which bind tighter than + and -: for
\* all operands a, b, c, d, additive o1 and multiplicative o2 the expression
\* a o1 b o2 c ^ d evaluates as a o1 (b o2 (c ^ d)), and a ^ b o2 c o1 d as
\* ((a ^ b) o2 c) o1 d.
C14_ThreeTiers ==
    (Parsed /\ Str \in Tiered) =>
      \A a \in Operands, b \in Operands, c \in Operands, d \in Operands,
         o1 \in {"+", "-"}, o2 \in {"*", "/"} :
        /\ Str = a \o <<o1>> \o b \o <<o2>> \o c \o <<"^">> \o d =>
               IsOutcome(BinApply(o1, ValueOf(a),
                             BinApply(o2, ValueOf(b), Pow(ValueOf(c), ValueOf(d)))))
        /\ Str = a \o <<"^">> \o b \o <<o2>> \o c \o <<o1>> \o d =>
               IsOutcome(BinApply(o1,
                             BinApply(o2, Pow(ValueOf(a), ValueOf(b)), ValueOf(c)),
                             ValueOf(d)))

\* "2 + 2 * 3 ^ 2" has returned "20"
C14_Witness ==
    /\ Done
    /\ input = <<"2", " ", "+", " ", "2", " ", "*", " ", "3", " ", "^", " ", "2">>
    /\ Str \in Tiered
    /\ ret = <<"2", "0">>

\* ------------------------------------------------------------- dispatcher
\* MCPErrorCode
MethodNotFound == -32601

InvalidParams == -32602

InternalError == -32603

\* The id of a request: a number, a string, or absent.
Ids ==
    { [t |-> "number", v |-> <<"1">>],
      [t |-> "string", v |-> <<"a">>],
      [t |-> "undefined", v |-> <<>>] }

\* createMCPResponse: the envelope of a result (here the text of its content)
createMCPResponse(id, res) ==
    [kind |-> "response", jsonrpc |-> "2.0", id |-> id, keys |-> {"result"},
     result |-> res, code |-> 0, message |-> <<>>]

\* createMCPError, called without data
createMCPError(id, code, message) ==
    [kind |-> "response", jsonrpc |-> "2.0", id |-> id, keys |-> {"error"},
     result |-> <<>>, code |-> code, message |-> message]

createMethodNotFoundError(id, method) ==
    createMCPError(id, MethodNotFound, <<"Method not found: ", method>>)

createInvalidParamsError(id, message) ==
    createMCPError(id, InvalidParams, message)

createInternalError(id, message) ==
    createMCPError(id, InternalError, message)

\* How a function ends: it returns a value or it throws an Error with a message.
Returns(v) == [thrown |-> FALSE, value |-> v, message |-> <<>>]

Throws(m) == [thrown |-> TRUE, value |-> <<>>, message |-> m]

\* The arguments of a tool call: undefined, null, or an object whose
\* expression is absent, a number or a string.
NoExpression == [kind |-> "undefined", str |-> <<>>]

ArgsUndefined == [kind |-> "undefined", expression |-> NoExpression]

ArgsNull == [kind |-> "null", expression |-> NoExpression]

ArgsOf(e) == [kind |-> "object", expression |-> e]

StringArg(s) == ArgsOf([kind |-> "string", str |-> s])

\* what the dispatcher sees of the outcome c of calculate
outcomeOf(c) ==
    IF c.thrown # <<>> THEN Throws(c.thrown[1]) ELSE Returns(c.ret)

\* calculate called by the dispatcher with the arguments of the request:
\* args.expression.trim() throws a TypeError unless args is an object whose
\* expression is a string; the message of a TypeError is the engine's.
calculateArgs(args) ==
    IF args.kind # "object"
    THEN Throws(<<"Cannot read properties of ", args.kind, " (reading 'expression')">>)
    ELSE IF args.expression.kind = "undefined"
    THEN Throws(<<"Cannot read properties of undefined (reading 'trim')">>)
    ELSE IF args.expression.kind # "string"
    THEN Throws(<<"args.expression.trim is not a function">>)
    ELSE outcomeOf(calculate(args.expression.str))

\* case 'calculate' after the call c of calculate: the response with the
\* text of the result, unless calculate has thrown
respondText(id, c) ==
    IF c.thrown THEN c ELSE Returns(createMCPResponse(id, c.value))

\* the switch of handleToolsCall for the tools of the model
callTool(id, name, args) ==
    IF name = "calculate"
    THEN respondText(id, calculateArgs(args))
    ELSE Returns(createInvalidParamsError(id, <<"Unknown tool: ", name>>))

\* the catch of handleToolsCall around the outcome c of its switch
catchToolError(id, name, c) ==
    IF c.thrown
    THEN Returns(createInternalError(id, <<name, " failed: ">> \o c.message))
    ELSE c

\* handleToolsCall without its try and catch
handleToolsCall_noCatch(id, params) ==
    IF params.kind = "undefined" \/ params.name = ""
    THEN Returns(createInvalidParamsError(id, <<"Missing required parameter: name">>))
    ELSE callTool(id, params.name, params.arguments)

\* handleToolsCall: the test of params and of its name, the switch, the catch
handleToolsCall(id, params) ==
    IF params.kind = "undefined" \/ params.name = ""
    THEN Returns(createInvalidParamsError(id, <<"Missing required parameter: name">>))
    ELSE catchToolError(id, params.name, callTool(id, params.name, params.arguments))

\* the catch of handleMCPRequest around the outcome c of its switch
catchRequestError(id, c) ==
    IF c.thrown THEN Returns(createInternalError(id, c.message)) ELSE c

\* handleMCPRequest: the switch on the method inside its try and catch
handleMCPRequest(req) ==
    catchRequestError(req.id,
        CASE req.method = "initialize" -> Returns(createMCPResponse(req.id, <<"serverInfo">>))
          [] req.method = "tools/list" -> Returns(createMCPResponse(req.id, <<"tools">>))
          [] req.method = "tools/call" -> handleToolsCall(req.id, req.params)
          [] OTHER -> Returns(createMethodNotFoundError(req.id, req.method)))

\* what the caller of handleMCPRequest gets of its outcome c: the response
\* returned, or the exception that left it
responseOf(c) ==
    IF c.thrown THEN [kind |-> "exception", message |-> c.message] ELSE c.value

\* The expressions of the requests.
McpExpressions == {s \in CallInputs \cup Examples \cup FunctionCalls : InModel(s)}

McpArgs ==
    {ArgsUndefined, ArgsNull, ArgsOf(NoExpression), ArgsOf([kind |-> "number", str |-> <<>>])}
        \cup {StringArg(s) : s \in McpExpressions}

NoParams == [kind |-> "undefined", name |-> "", arguments |-> ArgsUndefined]

McpParams ==
    {NoParams} \cup
    {[kind |-> "object", name |-> n, arguments |-> a] :
        n \in {"", "calculate", "no_such_tool"}, a \in McpArgs}

Requests ==
    {[kind |-> "request", id |-> i, method |-> m, params |-> p] :
        i \in Ids, m \in {"initialize", "tools/list", "tools/call", "no/such"},
        p \in McpParams}

InitMCP ==
    /\ request \in Requests
    /\ response = NoResponse
    /\ cli = NoCli
    /\ input = <<>>
    /\ pc = "done"
    /\ expr = <<>>
    /\ result = NoResult
    /\ cursor = 0
    /\ divz = FALSE
    /\ evalCalls = 0
    /\ ret = <<>>
    /\ thrown = <<>>
    /\ log = <<>>
    /\ inv = <<>>
    /\ pos = <<>>
    /\ stepper = 0

\* The request is handled: what handleMCPRequest returns becomes the
\* response; an exception leaving it would be the crash of the dispatcher.
HandleMCPRequest ==
    /\ response = NoResponse
    /\ response' = responseOf(handleMCPRequest(request))
    /\ UNCHANGED <<request, callVars, log, inv, pos, stepper, cli>>

NextMCP == HandleMCPRequest

SpecMCP == InitMCP /\ [][NextMCP]_vars

\* the request is a tools/call of calculate and has been handled
CalculateHandled ==
    /\ response # NoResponse
    /\ request.method = "tools/call"
    /\ request.params.kind = "object"
    /\ request.params.name = "calculate"

\* the arguments are absent or of the wrong type
BadArguments ==
    LET a == request.params.arguments
    IN  a.kind # "object" \/ a.expression.kind # "string"

\* calculate fails for the request
CalculateFails ==
    \/ BadArguments
    \/ LET e == trim(request.params.arguments.expression.str)
       IN  \/ e = <<>>
           \/ \E i \in 1..Len(e) : e[i] \notin AllowedChars
           \/ evaluateExpression(e).val.k \in {"inf", "nan"}

C16_BadArgumentsInvalidParams ==
    (CalculateHandled /\ BadArguments) =>
        response.keys = {"error"} /\ response.code = -32602

\* ---------------------------------------------------- failures of the parse
\* The first position of s, where the grammar requires a factor, holds
\* nothing, an operator other than the unary minus, a ')' or a '.' that no
\* digit follows: parseNumber is called there and finds no number.
EmptyNumberFirst(s) ==
    \/ s = <<>>
    \/ s[1] \in {"+", "*", "/", "^", ")"}
    \/ s[1] = "." /\ (Len(s) = 1 \/ s[2] \notin DigitChars)

\* C17 (as claimed): an expression whose first number position holds no
\* valid digits fails; it never returns a value.
C17_EmptyNumberFails ==
    (Done /\ EmptyNumberFirst(Str)) => (ret = <<>> /\ thrown # <<>>)

\* s ends where the grammar expects a further token: after a binary
\* operator, a unary minus or a '(', or inside a group that is still open.
EndsEarly(s) ==
    /\ s # <<>>
    /\ \/ s[Len(s)] \in {"+", "-", "*", "/", "^", "("}
       \/ DepthAt(s, Len(s) + 1) > 0

\* C18 (as claimed): when the parser has read the whole input and the input
\* ends where a further token is expected, the call fails.
C18_ExhaustedInputFails ==
    (Done /\ Parsed /\ cursor >= Len(Str) /\ EndsEarly(Str)) =>
        (ret = <<>> /\ thrown # <<>>)

\* the ended calls of a sequence of calls: those of the log and the current one
EndedCalls ==
    {OutcomeOf(log[i]) @@ [input |-> log[i].input] : i \in 1..Len(log)}
        \cup {[input |-> input, ret |-> ret, thrown |-> thrown] : x \in {z \in {1} : Done}}

FinalValueDecides ==
    LET v == inv[1]
    IN  /\ v.status = "parsing" => (v.thrown = <<>> /\ v.ret = <<>>)
        /\ EndedParsed(1) =>
               /\ v.thrown # <<>> <=> v.rv.k \in {"inf", "nan"}
               /\ v.thrown # <<>> => v.thrown = <<WrapError(ErrNotNumber)>>
               /\ v.thrown = <<>> => v.ret = numToString(v.rv)
               /\ pos[1] = evaluateExpression(trim(v.in)).pos

\* The step that divides by zero throws nothing and leaves the invocation
\* parsing.
DivisionStepSilent ==
    (inv'[1].divz /\ ~inv[1].divz) =>
        /\ inv'[1].status = "parsing"
        /\ inv'[1].thrown = <<>>
        /\ inv'[1].ret = <<>>

\* An error is thrown only by the allow-list test before the parse or after
\* the top-level parseExpression has returned.
ThrowsOnlyOutsideParse ==
    inv'[1].thrown # inv[1].thrown =>
        \/ inv[1].status = "start"
        \/ inv[1].status = "parsing" /\ inv[1].stack = <<>>

CursorForward ==
    /\ pos'[1] >= pos[1]
    /\ pos'[1] - pos[1] \in {0, 1}
    /\ pos'[1] # pos[1] => (inv[1].status = "parsing" /\ inv[1].stack # <<>>)

\* C21: within one evaluation the cursor only moves forward: no step
\* decreases it, and every change of it is the increment of one next() made
\* by a step of the parser.
C21_CursorMonotone == [][CursorForward]_vars

\* "2 + 2 * 3 ^ 2" has been parsed to its end, the cursor at 7
C21_Witness ==
    /\ inv[1].in = <<"2", " ", "+", " ", "2", " ", "*", " ", "3", " ", "^", " ", "2">>
    /\ inv[1].status = "done"
    /\ pos[1] = 7
    /\ inv[1].ret = <<"2", "0">>

\* ----------------------------------------------------------- unary minus
\* C22: unary minus binds tighter than every binary operator, ^ included:
\* for all operands a, b and every binary operator o, "-a o b" evaluates as
\* (-a) o b and "a o -b" as a o (-b); "-2^2" returns "4".
C22_UnaryMinusBindsTightest ==
    (Parsed /\ Str \in MinusBinds) =>
      \A a \in Operands, b \in Operands, o \in BinOps :
        /\ Str = <<"-">> \o a \o <<o>> \o b =>
               IsOutcome(BinApply(o, Neg(ValueOf(a)), ValueOf(b)))
        /\ Str = a \o <<o, "-">> \o b =>
               IsOutcome(BinApply(o, ValueOf(a), Neg(ValueOf(b))))

\* "-2^2" has returned "4"
C22_Witness ==
    /\ Done
    /\ input = <<"-", "2", "^", "2">>
    /\ Str \in MinusBinds
    /\ ret = <<"4">>

\* ------------------------------------------------------- associativity
\* C23: + - and * / are left-associative within their tier: for all
\* operands a, b, c and operators o1, o2 of one tier, "a o1 b o2 c"
\* evaluates as (a o1 b) o2 c; "10 - 3 - 2" gives 5 and "8 / 4 / 2" gives 1.
C23_LeftAssociativeTiers ==
    (Parsed /\ Str \in SameTier) =>
      \A a \in TierOperands, b \in TierOperands, c \in TierOperands, t \in TierPairs :
        Str = a \o <<t[1]>> \o b \o <<t[2]>> \o c =>
            IsOutcome(BinApply(t[2], BinApply(t[1], ValueOf(a), ValueOf(b)), ValueOf(c)))

\* "10 - 3 - 2" has returned "5"
C23_Witness ==
    /\ Done
    /\ input = <<"1", "0", " ", "-", " ", "3", " ", "-", " ", "2">>
    /\ Str \in SameTier
    /\ ret = <<"5">>

\* ------------------------------------------- the evaluator of scripts/math.ts
\* str[pos] || ''
cliPeek(str, p) == IF p < Len(str) THEN str[p + 1] ELSE ""

\* The characters the loop of the script's parseNumber consumes from p on.
RECURSIVE cliNumRun(_, _)
cliNumRun(str, p) ==
    IF cliPeek(str, p) \in DigitChars \cup {"."} THEN 1 + cliNumRun(str, p + 1) ELSE 0

\* the number at p of length len
cliNumberAt(str, p, len) ==
    [val |-> parseFloat(SubSeq(str, p + 1, p + len)), pos |-> p + len]

cliParseNumber(str, p) == cliNumberAt(str, p, cliNumRun(str, p))

RECURSIVE cliParseFactor(_, _)
RECURSIVE cliParsePowerLoop(_, _)
RECURSIVE cliParseTermLoop(_, _)
RECURSIVE cliParseExpressionLoop(_, _)
RECURSIVE cliParseExpression(_, _)

\* the group whose expression returned e: next() and the return of val
cliGroup(e) == [val |-> e.val, pos |-> e.pos + 1]

\* the factor f negated
cliNegated(f) == [val |-> Neg(f.val), pos |-> f.pos]

cliParseFactor(str, p) ==
    IF cliPeek(str, p) = "("
    THEN cliGroup(cliParseExpression(str, p + 1))
    ELSE IF cliPeek(str, p) = "-"
    THEN cliNegated(cliParseFactor(str, p + 1))
    ELSE cliParseNumber(str, p)

\* left = Math.pow(left, parseFactor())
cliPowStep(left, f) == [val |-> Pow(left, f.val), pos |-> f.pos]

cliParsePowerLoop(str, st) ==
    IF cliPeek(str, st.pos) = "^"
    THEN cliParsePowerLoop(str, cliPowStep(st.val, cliParseFactor(str, st.pos + 1)))
    ELSE st

cliParsePower(str, p) == cliParsePowerLoop(str, cliParseFactor(str, p))

\* left = op === '*' ? left * right : left / right
cliTermStep(left, op, right) ==
    [val |-> IF op = "*" THEN Mul(left, right.val) ELSE Div(left, right.val), pos |-> right.pos]

cliParseTermLoop(str, st) ==
    IF cliPeek(str, st.pos) = "*" \/ cliPeek(str, st.pos) = "/"
    THEN cliParseTermLoop(str,
             cliTermStep(st.val, cliPeek(str, st.pos), cliParsePower(str, st.pos + 1)))
    ELSE st

cliParseTerm(str, p) == cliParseTermLoop(str, cliParsePower(str, p))

\* left = op === '+' ? left + right : left - right
cliExpressionStep(left, op, right) ==
    [val |-> IF op = "+" THEN Add(left, right.val) ELSE Sub(left, right.val), pos |-> right.pos]

cliParseExpressionLoop(str, st) ==
    IF cliPeek(str, st.pos) = "+" \/ cliPeek(str, st.pos) = "-"
    THEN cliParseExpressionLoop(str,
             cliExpressionStep(st.val, cliPeek(str, st.pos), cliParseTerm(str, st.pos + 1)))
    ELSE st

cliParseExpression(str, p) == cliParseExpressionLoop(str, cliParseTerm(str, p))

\* the evaluateExpression of the script: the value of its parseExpression
cliEvaluateExpression(e) == cliParseExpression(stripWhitespace(e), 0).val

\* the allowedPattern of the script
cliAllowedPattern(e) == e # <<>> /\ \A i \in 1..Len(e) : e[i] \in AllowedChars

\* what the script's calculate does: it returns { expression, result }
\* or throws an Error with a message
CliReturns(e, r) == [called |-> TRUE, expression |-> e, result |-> r, thrown |-> <<>>]

CliThrows(m) == [called |-> TRUE, expression |-> <<>>, result |-> NoResult, thrown |-> <<m>>]

\* a check of the result that lets every number pass
cliCheck_noFiniteCheck(e, r) == CliReturns(e, r)

\* the finiteness check of the script and its return
cliCheck(e, r) ==
    IF ~IsFinite(r) THEN CliThrows(ErrNotNumber) ELSE CliReturns(e, r)

\* the script's calculate on the trimmed expression
cliCalculateTrimmed(e) ==
    IF ~cliAllowedPattern(e)
    THEN CliThrows(ErrInvalidChars)
    ELSE cliCheck(e, cliEvaluateExpression(e))

\* calculate of scripts/math.ts
cliCalculate(expression) == cliCalculateTrimmed(trim(expression))

InitBoth ==
    /\ input \in Inputs
    /\ pc = "start"
    /\ expr = <<>>
    /\ result = NoResult
    /\ cursor = 0
    /\ divz = FALSE
    /\ evalCalls = 0
    /\ ret = <<>>
    /\ thrown = <<>>
    /\ log = <<>>
    /\ inv = <<>>
    /\ pos = <<>>
    /\ stepper = 0
    /\ request = NoRequest
    /\ response = NoResponse
    /\ cli = NoCli

\* The script's calculate is called on the expression the handler's
\* calculate has been called on.
CliCalculate ==
    /\ pc = "done"
    /\ cli = NoCli
    /\ cli' = cliCalculate(input)
    /\ UNCHANGED <<callVars, log, inv, pos, stepper, request, response>>

NextBoth == Sanitize \/ Evaluate \/ Check \/ CliCalculate

SpecBoth == InitBoth /\ [][NextBoth]_vars

\* C24: the calculate of scripts/math.ts and the calculate of the handler
\* agree on every expression: both fail or both succeed, and when they
\* succeed the string form of the script's number is the string the handler
\* returns.
C24_ScriptAgreesWithHandler ==
    (Done /\ cli.called) =>
        /\ cli.thrown # <<>> <=> thrown # <<>>
        /\ cli.thrown = <<>> => (ret # <<>> /\ numToString(cli.result) = ret)
        /\ cli.thrown = <<>> => cli.expression = expr

\* both have failed on "5 / 0", the handler with the prefix the script
\* does not add
C24_Witness ==
    /\ Done
    /\ cli.called
    /\ input = <<"5", " ", "/", " ", "0">>
    /\ cli.thrown = <<ErrNotNumber>>
    /\ thrown = <<WrapError(ErrNotNumber)>>

\* ----------------------------------------------------------- termination
\* The expressions of the invocation whose end is awaited: the documented
\* examples, the chains of unary minus and the expressions with input left
\* over.
FairInputs ==
    {s \in Examples \cup Trailing \cup Negated \cup FunctionCalls : InModel(s)}

InitFair ==
    /\ \E s \in FairInputs :
           inv = [i \in Procs |-> IF i = 1 THEN NewInvocation(s) ELSE NoInvocation]
    /\ pos = [i \in Procs |-> 0]
    /\ stepper = 0
    /\ request = NoRequest
    /\ response = NoResponse
    /\ cli = NoCli
    /\ input = <<>>
    /\ pc = "done"
    /\ expr = <<>>
    /\ result = NoResult
    /\ cursor = 0
    /\ divz = FALSE
    /\ evalCalls = 0
    /\ ret = <<>>
    /\ thrown = <<>>
    /\ log = <<>>

\* The steps of an invocation are taken as long as there is one to take.
SpecSoloFair == InitFair /\ [][NextSteps]_vars /\ WF_vars(NextSteps)

\* the parseFactor activations of the stack that wait for a recursive call
RecursionDepth(stack) ==
    Cardinality({k \in 1..Len(stack) : stack[k].fn = "factor" /\ stack[k].at \in {"close", "neg"}})

\* The loop iterations and the recursive calls made so far have each
\* consumed a character of their own inside the input.
BoundedByLength ==
    LET v == inv[1]
    IN  v.status # "start" =>
            /\ v.iters + v.calls <= Len(v.str)
            /\ v.iters + v.calls <= pos[1]
            /\ RecursionDepth(v.stack) <= v.calls

\* A step that is a loop iteration or a recursive call of parseFactor
\* consumes, before it, the character at the cursor, inside the input.
ConsumesFirst ==
    (inv'[1].iters + inv'[1].calls > inv[1].iters + inv[1].calls) =>
        /\ pos[1] < Len(inv[1].str)
        /\ pos'[1] = pos[1] + 1

\* C25: parsing terminates for every input: every loop iteration and every
\* recursive call made from parseFactor is preceded by the consume of one
\* character inside the input, so their number and the recursion depth are
\* at most the length of the whitespace-stripped input, and the call ends.
C25_ParsingTerminates ==
    /\ [](BoundedByLength)
    /\ [][ConsumesFirst]_vars
    /\ <>(inv[1].status = "done")

\* "--(2+3)*3" has ended after three recursive calls and four loop
\* iterations
C25_Witness ==
    /\ inv[1].in = <<"-", "-", "(", "2", "+", "3", ")", "*", "3">>
    /\ inv[1].status = "done"
    /\ inv[1].calls = 3
    /\ inv[1].iters = 5
    /\ inv[1].ret = <<"1", "5">>

\* ------------------------------------------------- the cursor and the end
\* the '(' characters among the characters of str the cursor p has passed
OpensPassed(str, p) ==
    Cardinality({k \in 1..Len(str) : k <= p /\ str[k] = "("})

\* The cursor is at most the length of the input plus the number of '('
\* consumed, hence at most twice the length.
CursorBound ==
    inv[1].status # "start" =>
        /\ pos[1] <= Len(inv[1].str) + OpensPassed(inv[1].str, pos[1])
        /\ pos[1] <= 2 * Len(inv[1].str)

\* A step that moves the cursor past the end of the input is the consume
\* of parseFactor at a closing position.
PastEndOnlyAtClose ==
    (pos'[1] > pos[1] /\ pos'[1] > Len(inv[1].str)) =>
        /\ inv[1].stack # <<>>
        /\ inv[1].stack[Len(inv[1].stack)].fn = "factor"
        /\ inv[1].stack[Len(inv[1].stack)].at = "close"

\* C26: at every step the cursor is at most the length of the stripped
\* input plus the number of '(' consumed so far, hence at most twice the
\* length, and only the consume at a closing position moves it past the end.
C26_CursorOvershoot ==
    /\ [](CursorBound)
    /\ [][PastEndOnlyAtClose]_vars

\* "((" has ended with the cursor at 4, twice its length
C26_Witness ==
    /\ inv[1].in = <<"(", "(">>
    /\ inv[1].status = "done"
    /\ pos[1] = 4
    /\ inv[1].thrown = <<WrapError(ErrNotNumber)>>

\* ------------------------------------------------- the closing position
\* the outcome of the ended call
Outcome == [ret |-> ret, thrown |-> thrown]

\* C27: the character at a closing position is consumed without being
\* compared to ')': a call on "(" E has the outcome of calculate on
\* "(" E ")", and a call on "(" E ")" the outcome of calculate on "(" E.
C27_ClosingParenthesisOptional ==
    (Done /\ input # <<>> /\ input[1] = "(") =>
        /\ Outcome = calculate(input \o <<")">>)
        /\ input[Len(input)] = ")" => Outcome = calculate(SubSeq(input, 1, Len(input) - 1))

\* "(2 + 3" has returned "5", what calculate returns on "(2 + 3)"
C27_Witness ==
    /\ Done
    /\ input = <<"(", "2", " ", "+", " ", "3">>
    /\ ret = <<"5">>
    /\ calculate(<<"(", "2", " ", "+", " ", "3", ")">>).ret = <<"5">>

\* ------------------------------------------------------------ whitespace
\* s with the character c inserted after its first k characters
InsertAt(s, k, c) == SubSeq(s, 1, k) \o <<c>> \o SubSeq(s, k + 1, Len(s))

\* s without its character k
RemoveAt(s, k) == SubSeq(s, 1, k - 1) \o SubSeq(s, k + 1, Len(s))

ValidLiteral(p) ==
    /\ \E k \in 1..Len(p) : p[k] \in DigitChars
    /\ \A k \in 1..Len(p) : p[k] \in DigitChars \cup {"."}
    /\ Cardinality({k \in 1..Len(p) : p[k] = "."}) <= 1

\* the number the decimal literal p denotes: its digits over ten to the
\* number of digits after its dot
LiteralValue(p) ==
    LET dots == {k \in 1..Len(p) : p[k] = "."}
        fl   == IF dots = {} THEN 0 ELSE Len(p) - SetMax(dots)
    IN  Mk(1, DecVal(SelectSeq(p, LAMBDA c : c \in DigitChars)), Pow10(fl))

\* the value of the longest prefix of the run r that is a decimal literal,
\* NaN when there is none
LongestLiteral(r) ==
    LET ks == {k \in 1..Len(r) : ValidLiteral(SubSeq(r, 1, k))}
    IN  IF ks = {} THEN NaN ELSE LiteralValue(SubSeq(r, 1, SetMax(ks)))

\* C29: parseNumber consumes the maximal run of digits and dots at the
\* cursor and takes the longest prefix of the run that is a decimal literal
\* as its value, discarding the rest of the run without an error; a run
\* without a digit is NaN. The parse goes on after the whole run.
C29_LongestLiteralOfRun ==
    (Parsed /\ Str \in NumberRuns) =>
        /\ cursor = Len(Str)
        /\ \A r \in Runs :
               /\ Str = r => IsOutcome(LongestLiteral(r))
               /\ Str = r \o <<"+", "2">> =>
                      IsOutcome(Add(LongestLiteral(r), ValueOf(<<"2">>)))

\* "2.5.2" has returned "2.5"
C29_Witness ==
    /\ Done
    /\ input = <<"2", ".", "5", ".", "2">>
    /\ Str \in NumberRuns
    /\ cursor = 5
    /\ ret = <<"2", ".", "5">>

\* ------------------------------------------------------ empty expressions
\* C30: an expression that is empty after trimming is rejected by the
\* allow-list test with the invalid-characters error, before any parsing:
\* evaluateExpression is never invoked on it.
C30_EmptyRejectedBeforeParsing ==
    /\ trim(input) = <<>> =>
           /\ evalCalls = 0
           /\ pc # "eval"
           /\ Done => (ret = <<>> /\ thrown = <<ErrInvalidChars>>)
    /\ evalCalls > 0 => expr # <<>>

\* the call on " \t" has failed with the invalid-characters error and
\* without a call of evaluateExpression
C30_Witness ==
    /\ Done
    /\ input = <<" ", "\t">>
    /\ evalCalls = 0
    /\ thrown = <<ErrInvalidChars>>

=============================================================================
